---- MODULE Spec2Model ----
(***************************************************************************)
(* Fraud scoring service (freq_app): weight derivation and caching         *)
(* (model/weights.py), construction of the Fraud CPD and assembly of the   *)
(* Bayesian network (model/model_builder.py, model/priors.py), the model   *)
(* store (FraudBN.save / FraudBN.load), service initialisation and         *)
(* scoring (service.py, runner.py).                                        *)
(*                                                                         *)
(* Numbers.  A Python float is modelled as <<"num", v>> or <<"nan", 0>>.   *)
(* Log-odds are counted in units of ln 2, so that logit(p) of a            *)
(* probability whose odds are a power of two is an integer and             *)
(* sigmoid(x) = 1/(1+2^-x).  A probability held in a CPD is a fixed-point  *)
(* number with Precision binary digits (v stands for v / One), sigmoid     *)
(* rounding to the nearest such number as the float operation rounds to    *)
(* the nearest double.  A probability read from a JSON source is the       *)
(* rational <<n, d>>; d = 0 is an infinite value (JSON "Infinity").        *)
(***************************************************************************)
EXTENDS Integers, Sequences, FiniteSets, TLC

\* ------------------------------------------------------------ bounds
\* Binary digits kept by a probability of a CPD.
Precision == 10
\* Largest magnitude of a log-odds value (units of ln 2) logit returns.
MaxLogOdds == 6
\* Number of runs of the program (process lifetimes) a behaviour holds.
MaxRuns == 2
\* Number of callers that initialise the service concurrently.
NumCallers == 2

One == 2 ^ Precision

\* ------------------------------------------------------------ floats
Num(v) == <<"num", v>>
NaN == <<"nan", 0>>
IsNaN(x) == x[1] = "nan"

\* A float read from JSON as the rational n / d (d > 0).
Rat(n, d) == <<"rat", n, d>>

\* x + y and x - y of floats: NaN is absorbing.
FAdd(x, y) == IF IsNaN(x) \/ IsNaN(y) THEN NaN ELSE Num(x[2] + y[2])
FSub(x, y) == IF IsNaN(x) \/ IsNaN(y) THEN NaN ELSE Num(x[2] - y[2])

\* The outcome of a call: a returned value or a raised exception.
Return(v) == [exc |-> "none", val |-> v]
Raise(e) == [exc |-> e, val |-> <<>>]
Raised(r) == r.exc # "none"

\* n / d rounded to the nearest integer (d > 0, n >= 0).
RoundDiv(n, d) == (2 * n + d) \div (2 * d)

\* The k with a / b = 2^k, for positive a and b.
Log2Ratio(a, b) ==
    CHOOSE k \in (0 - MaxLogOdds)..MaxLogOdds :
        IF k >= 0 THEN a = b * 2 ^ k ELSE a * 2 ^ (0 - k) = b

\* weights.py logit: the guard of line 43 only logs; line 45 computes
\* math.log(p / (1 - p)) whatever p is.  p = 1 divides by zero; a finite
\* p <= 0 or p > 1 makes the quotient <= 0 and math.log raises ValueError
\* (math domain error); an infinite p makes the quotient inf/-inf = nan and
\* math.log(nan) returns nan.
logit(probability) ==
    LET n == probability[1]
        d == probability[2]
    IN  IF d = 0 THEN Return(NaN)
        ELSE IF n = d THEN Raise("ZeroDivisionError")
        ELSE IF n <= 0 \/ n > d THEN Raise("ValueError")
        ELSE Return(Num(Log2Ratio(n, d - n)))

\* math_utils.py sigmoid: 1.0 / (1.0 + math.exp(-input_val)), rounded to
\* Precision digits; beyond the precision 1 + exp(-x) rounds to 1 (x large)
\* and the quotient rounds to 0 (x very negative).
sigmoid(input_val) ==
    IF IsNaN(input_val) THEN NaN
    ELSE LET x == input_val[2]
         IN  IF x > Precision THEN Num(One)
             ELSE IF x < 0 - (Precision + 1) THEN Num(0)
             ELSE IF x >= 0 THEN Num(RoundDiv(One * 2 ^ x, 2 ^ x + 1))
             ELSE Num(RoundDiv(One, 1 + 2 ^ (0 - x)))

\* 1.0 - prob (model_builder.py line 85).
Complement(prob) == IF IsNaN(prob) THEN NaN ELSE Num(One - prob[2])

\* ------------------------------------------------------------ schema
\* model_builder.py lines 43-49 and 93-97: the parents of Fraud, in order.
Parents == <<"Porting", "DarkWeb", "StateMatch", "ProxyFlag", "MAID_NightDistance">>
\* model_builder.py line 99: the evidence cardinalities as written.
evidence_card == <<3, 4, 2, 2, 4>>
\* model_builder.py line 101.
FraudStates == <<"Fraud", "Legit">>

Range(s) == {s[i] : i \in DOMAIN s}
ParentSet == Range(Parents)

\* f"{feature}:{state}" (weights.py line 71, model_builder.py lines 75-79).
Key(feature, state) == feature \o ":" \o state

\* ------------------------------------------------------------ sources
\* The probability whose odds are 2^k.
OddsProb(k) == IF k >= 0 THEN <<2 ^ k, 2 ^ k + 1>> ELSE <<1, 1 + 2 ^ (0 - k)>>

Entry(feature, state, probability) ==
    [feature |-> feature, state |-> state, p |-> probability]

\* Contents of raw_probs.json (feature -> state -> probability), in file
\* order.  RawBase covers every state of the schemas the program is run with.
RawBase ==
    << Entry("Porting", "Never", OddsProb(-3)),
       Entry("Porting", "Old", OddsProb(-2)),
       Entry("Porting", "Recent", OddsProb(1)),
       Entry("DarkWeb", "None", OddsProb(-3)),
       Entry("DarkWeb", "Low", OddsProb(-2)),
       Entry("DarkWeb", "Medium", OddsProb(-1)),
       Entry("DarkWeb", "High", OddsProb(1)),
       Entry("StateMatch", "Yes", OddsProb(-2)),
       Entry("StateMatch", "No", OddsProb(0)),
       Entry("ProxyFlag", "No", OddsProb(-2)),
       Entry("ProxyFlag", "Yes", OddsProb(1)),
       Entry("MAID_NightDistance", "Near", OddsProb(-3)),
       Entry("MAID_NightDistance", "Moderate", OddsProb(-2)),
       Entry("MAID_NightDistance", "Far", OddsProb(-1)),
       Entry("MAID_NightDistance", "Distant", OddsProb(1)),
       Entry("Porting", "Today", OddsProb(2)) >>

\* RawBase with the probability of entry i replaced.
RawWith(i, probability) ==
    [j \in DOMAIN RawBase |->
        IF j = i THEN Entry(RawBase[j].feature, RawBase[j].state, probability)
        ELSE RawBase[j]]

\* RawBase without entry i (a state the weights source does not know).
RawWithout(i) ==
    [j \in 1..(Len(RawBase) - 1) |-> IF j < i THEN RawBase[j] ELSE RawBase[j + 1]]

\* A file: whether the path exists, whether it holds any bytes (st_size),
\* and what a reader parses from it.
File(data) == [exists |-> TRUE, size |-> 1, data |-> data]
NoFile == [exists |-> FALSE, size |-> 0, data |-> <<>>]
\* A file just opened for writing ("w", "wb"): truncated, nothing written.
EmptyFile == [exists |-> TRUE, size |-> 0, data |-> <<>>]

\* The raw_probs.json files the program is run with: in-domain
\* probabilities, a probability of 1, above 1, below 0, infinite, a
\* missing state, and no file.
RawFiles ==
    { File(RawBase),
      File(RawWith(3, OddsProb(2))),
      File(RawWith(7, <<1, 1>>)),
      File(RawWith(7, <<3, 2>>)),
      File(RawWith(2, <<0 - 1, 4>>)),
      File(RawWith(7, <<1, 0>>)),
      File(RawWithout(5)),
      NoFile }

\* settings.base_fraud_rate (BASE_FRAUD_RATE): in domain, 0 and infinite.
BaseRates == { OddsProb(-2), OddsProb(-1), <<0, 1>>, <<1, 0>> }

Prior(states, values) == [states |-> states, values |-> values]

\* Contents of priors.json: node -> {states, values}.
PriorsBase ==
    [n \in ParentSet |->
        CASE n = "Porting" ->
                Prior(<<"Never", "Old", "Recent">>, << <<2, 4>>, <<1, 4>>, <<1, 4>> >>)
          [] n = "DarkWeb" ->
                Prior(<<"None", "Low", "Medium", "High">>,
                      << <<5, 8>>, <<1, 8>>, <<1, 8>>, <<1, 8>> >>)
          [] n = "StateMatch" -> Prior(<<"Yes", "No">>, << <<3, 4>>, <<1, 4>> >>)
          [] n = "ProxyFlag" -> Prior(<<"No", "Yes">>, << <<3, 4>>, <<1, 4>> >>)
          [] OTHER ->
                Prior(<<"Near", "Moderate", "Far", "Distant">>,
                      << <<1, 4>>, <<1, 4>>, <<1, 4>>, <<1, 4>> >>)]

\* PriorsBase with the entry of one node replaced.
PriorsWith(node, prior) == [n \in ParentSet |-> IF n = node THEN prior ELSE PriorsBase[n]]

\* Porting declared with four states and DarkWeb with three: the product
\* of the lengths is still 192.
PriorsSwapped ==
    [n \in ParentSet |->
        CASE n = "Porting" ->
                Prior(<<"Never", "Old", "Recent", "Today">>,
                      << <<1, 4>>, <<1, 4>>, <<1, 4>>, <<1, 4>> >>)
          [] n = "DarkWeb" ->
                Prior(<<"Low", "Medium", "High">>, << <<2, 4>>, <<1, 4>>, <<1, 4>> >>)
          [] OTHER -> PriorsBase[n]]

\* The priors.json files the program is run with: two consistent ones,
\* values that do not sum to 1, state lists whose lengths differ from the
\* written cardinalities (same product, smaller product), and no file.
PriorsFiles ==
    { File(PriorsBase),
      File(PriorsWith("StateMatch", Prior(<<"Yes", "No">>, << <<1, 4>>, <<3, 4>> >>))),
      File(PriorsWith("ProxyFlag", Prior(<<"No", "Yes">>, << <<3, 4>>, <<2, 4>> >>))),
      File(PriorsSwapped),
      File(PriorsWith("MAID_NightDistance",
                      Prior(<<"Near", "Distant">>, << <<2, 4>>, <<2, 4>> >>))),
      NoFile }

\* ------------------------------------------------------------ weights
\* The index of the first entry of raw_probs whose logit raises, 0 if none.
FirstRaising(raw_probs) ==
    LET bad == {i \in DOMAIN raw_probs : Raised(logit(raw_probs[i].p))}
    IN  IF bad = {} THEN 0 ELSE CHOOSE i \in bad : \A j \in bad : i <= j

\* weights.py train_and_save_weights, lines 54-71: read raw_probs.json,
\* bias = logit(base rate), weights[f"{feature}:{state}"] = logit(p) - bias.
\* A missing file only logs (line 58) and open raises (line 61).
derive_weights(raw_file, base_fraud_rate) ==
    IF ~raw_file.exists THEN Raise("FileNotFoundError")
    ELSE LET raw_probs == raw_file.data
             b == logit(base_fraud_rate)
             bad == FirstRaising(raw_probs)
             keys == {Key(raw_probs[i].feature, raw_probs[i].state) : i \in DOMAIN raw_probs}
             entry(k) == CHOOSE i \in DOMAIN raw_probs :
                            Key(raw_probs[i].feature, raw_probs[i].state) = k
         IN  IF Raised(b) THEN Raise(b.exc)
             ELSE IF bad # 0 THEN Raise(logit(raw_probs[bad].p).exc)
             ELSE Return([bias |-> b.val,
                          weights |-> [k \in keys |->
                                          FSub(logit(raw_probs[entry(k)].p).val, b.val)]])

\* ------------------------------------------------------------ CPDs
RECURSIVE Prod(_)
Prod(cards) == IF Len(cards) = 0 THEN 1 ELSE Head(cards) * Prod(Tail(cards))

\* itertools.product(*lists): every tuple, the last list varying fastest.
RECURSIVE product(_)
product(lists) ==
    IF Len(lists) = 0 THEN << <<>> >>
    ELSE LET rest == product(Tail(lists))
             n == Prod([i \in 1..(Len(lists) - 1) |-> Len(lists[i + 1])])
             head == Head(lists)
         IN  [i \in 1..(Len(head) * n) |->
                <<head[((i - 1) \div n) + 1]>> \o rest[((i - 1) % n) + 1]]

\* pgmpy TabularCPD(...): the values must be variable_card rows of
\* prod(evidence_card) columns, and no variable may repeat a state name;
\* the lengths of the state name lists are not compared with the
\* cardinalities.
TabularCPD(variable, variable_card, values, evidence, card, state_names) ==
    IF Len(values) # variable_card
         \/ \E r \in DOMAIN values : Len(values[r]) # Prod(card)
      THEN Raise("ValueError")
    ELSE IF \E v \in DOMAIN state_names :
              Cardinality(Range(state_names[v])) # Len(state_names[v])
      THEN Raise("ValueError")
    ELSE Return([variable |-> variable, variable_card |-> variable_card,
                 values |-> values, evidence |-> evidence,
                 evidence_card |-> card, state_names |-> state_names])

\* model_builder.py line 73-80: bias + the five weights of one tuple.
tuple_logit(bias, WEIGHTS, tuple) ==
    FAdd(FAdd(FAdd(FAdd(FAdd(bias, WEIGHTS[Key(Parents[1], tuple[1])]),
                        WEIGHTS[Key(Parents[2], tuple[2])]),
                   WEIGHTS[Key(Parents[3], tuple[3])]),
              WEIGHTS[Key(Parents[4], tuple[4])]),
         WEIGHTS[Key(Parents[5], tuple[5])])

\* build_fraud_cpd with WEIGHTS.get(key, 0.0) in place of WEIGHTS[key]: a
\* missing weight gets the default 0.
build_fraud_cpd_defaulting(bias, WEIGHTS, priors_file) ==
    IF ~priors_file.exists THEN Raise("FileNotFoundError")
    ELSE LET priors_data == priors_file.data
             states == [i \in DOMAIN Parents |-> priors_data[Parents[i]].states]
             tuples == product(states)
             get(i, t) == IF Key(Parents[i], t[i]) \in DOMAIN WEIGHTS
                            THEN WEIGHTS[Key(Parents[i], t[i])] ELSE Num(0)
             z(t) == FAdd(FAdd(FAdd(FAdd(FAdd(bias, get(1, t)), get(2, t)),
                                    get(3, t)), get(4, t)), get(5, t))
             p_fraud_yes == [c \in DOMAIN tuples |-> sigmoid(z(tuples[c]))]
         IN  TabularCPD("Fraud", 2,
                        << p_fraud_yes,
                           [c \in DOMAIN p_fraud_yes |-> Complement(p_fraud_yes[c])] >>,
                        Parents, evidence_card,
                        [v \in ParentSet \cup {"Fraud"} |->
                            IF v = "Fraud" THEN FraudStates
                            ELSE priors_data[v].states])

\* model_builder.py FraudBN.build_fraud_cpd, lines 62-108.
build_fraud_cpd(bias, WEIGHTS, priors_file) ==
    IF ~priors_file.exists THEN Raise("FileNotFoundError")
    ELSE IF \E i \in DOMAIN Parents : Parents[i] \notin DOMAIN priors_file.data
      THEN Raise("KeyError")
    ELSE LET priors_data == priors_file.data
             states == [i \in DOMAIN Parents |-> priors_data[Parents[i]].states]
             tuples == product(states)
             missing(t) == \E i \in DOMAIN Parents :
                              Key(Parents[i], t[i]) \notin DOMAIN WEIGHTS
             p_fraud_yes == [c \in DOMAIN tuples |->
                               sigmoid(tuple_logit(bias, WEIGHTS, tuples[c]))]
         IN  IF \E c \in DOMAIN tuples : missing(tuples[c]) THEN Raise("KeyError")
             ELSE TabularCPD("Fraud", 2,
                             << p_fraud_yes,
                                [c \in DOMAIN p_fraud_yes |-> Complement(p_fraud_yes[c])] >>,
                             Parents, evidence_card,
                             [v \in ParentSet \cup {"Fraud"} |->
                                 IF v = "Fraud" THEN FraudStates
                                 ELSE priors_data[v].states])

\* priors.py build_priors, lines 38-51: one unconditional CPD per node of
\* priors.json; the outcome maps each node to the outcome of its TabularCPD.
build_priors(priors_file) ==
    IF ~priors_file.exists THEN Raise("FileNotFoundError")
    ELSE LET priors_data == priors_file.data
             cpd(n) == TabularCPD(n, Len(priors_data[n].states),
                                  [i \in DOMAIN priors_data[n].values |->
                                      <<Rat(priors_data[n].values[i][1],
                                            priors_data[n].values[i][2])>>],
                                  <<>>, <<>>,
                                  [v \in {n} |-> priors_data[n].states])
         IN  IF \E n \in DOMAIN priors_data : Raised(cpd(n)) THEN Raise("ValueError")
             ELSE Return([n \in DOMAIN priors_data |-> cpd(n).val])

\* ------------------------------------------------------------ network
\* model_builder.py FraudBN.__init__, lines 42-50: nodes and edges, no CPDs.
FraudBN_init ==
    [nodes |-> ParentSet \cup {"Fraud"},
     edges |-> {<<Parents[i], "Fraud">> : i \in DOMAIN Parents},
     cpds |-> [v \in {} |-> 0]]

NodeParents(model, node) == {e[1] : e \in {x \in model.edges : x[2] = node}}

\* pgmpy add_cpds: a CPD of a variable that is no node is refused; a CPD
\* replaces the one its variable had.
add_cpds(model, cpds) ==
    IF \E v \in DOMAIN cpds : v \notin model.nodes THEN Raise("ValueError")
    ELSE Return([model EXCEPT !.cpds =
                    [v \in DOMAIN model.cpds \cup DOMAIN cpds |->
                        IF v \in DOMAIN cpds THEN cpds[v] ELSE model.cpds[v]]])

\* The sum of rationals <<n, d>>.
RAdd(a, b) ==
    IF a[2] = b[2] THEN <<a[1] + b[1], a[2]>>
    ELSE <<a[1] * b[2] + b[1] * a[2], a[2] * b[2]>>

RECURSIVE RSum(_)
RSum(terms) == IF Len(terms) = 0 THEN <<0, 1>> ELSE RAdd(Head(terms), RSum(Tail(terms)))

\* A CPD value as the rational it stands for (not for NaN).
AsRational(x) == IF x[1] = "rat" THEN <<x[2], x[3]>> ELSE <<x[2], One>>

\* pgmpy is_valid_cpd: every column of the CPD sums to 1 (NaN never does).
is_valid_cpd(cpd) ==
    \A c \in DOMAIN cpd.values[1] :
        /\ \A r \in DOMAIN cpd.values : ~IsNaN(cpd.values[r][c])
        /\ LET total == RSum([r \in DOMAIN cpd.values |-> AsRational(cpd.values[r][c])])
           IN  total[1] = total[2]

\* pgmpy check_model: every node has a CPD, whose evidence is the node's
\* parents, whose columns sum to 1, and whose cardinality and state names
\* for each parent are those of the parent's own CPD.
ModelConsistent(model) ==
    /\ \A n \in model.nodes : n \in DOMAIN model.cpds
    /\ \A n \in model.nodes :
          LET cpd == model.cpds[n]
          IN  /\ Range(cpd.evidence) = NodeParents(model, n)
              /\ is_valid_cpd(cpd)
              /\ \A v \in {n} \cup Range(cpd.evidence) : v \in DOMAIN cpd.state_names
              /\ \A i \in DOMAIN cpd.evidence :
                    LET parent_cpd == model.cpds[cpd.evidence[i]]
                    IN  /\ parent_cpd.variable_card = cpd.evidence_card[i]
                        /\ parent_cpd.state_names[cpd.evidence[i]]
                             = cpd.state_names[cpd.evidence[i]]

check_model(model) == IF ModelConsistent(model) THEN Return(TRUE) ELSE Raise("ValueError")

\* assemble without the check_model() of line 119.
assemble_unchecked(bias, WEIGHTS, priors_file) ==
    LET fraud_cpd == build_fraud_cpd(bias, WEIGHTS, priors_file)
        prior_cpds == build_priors(priors_file)
        added == add_cpds(FraudBN_init,
                          [v \in DOMAIN prior_cpds.val \cup {"Fraud"} |->
                              IF v = "Fraud" THEN fraud_cpd.val ELSE prior_cpds.val[v]])
    IN  IF Raised(fraud_cpd) THEN Raise(fraud_cpd.exc)
        ELSE IF Raised(prior_cpds) THEN Raise(prior_cpds.exc)
        ELSE IF Raised(added) THEN Raise(added.exc)
        ELSE Return(added.val)

\* model_builder.py FraudBN.assemble, lines 116-121, on a fresh FraudBN().
assemble(bias, WEIGHTS, priors_file) ==
    LET fraud_cpd == build_fraud_cpd(bias, WEIGHTS, priors_file)
        prior_cpds == build_priors(priors_file)
        added == add_cpds(FraudBN_init,
                          [v \in DOMAIN prior_cpds.val \cup {"Fraud"} |->
                              IF v = "Fraud" THEN fraud_cpd.val ELSE prior_cpds.val[v]])
    IN  IF Raised(fraud_cpd) THEN Raise(fraud_cpd.exc)
        ELSE IF Raised(prior_cpds) THEN Raise(prior_cpds.exc)
        ELSE IF Raised(added) THEN Raise(added.exc)
        ELSE IF Raised(check_model(added.val)) THEN Raise("ValueError")
        ELSE Return(added.val)

\* ------------------------------------------------------------ inference
\* The position of a state name among a CPD's names for var, 0 if absent.
StateNo(cpd, var, state) ==
    LET names == cpd.state_names[var]
        at == {i \in DOMAIN names : names[i] = state}
    IN  IF at = {} THEN 0 ELSE CHOOSE i \in at : TRUE

\* A factor over Fraud alone: <<f, l, d>> stands for the values f/d of
\* Fraud and l/d of Legit.  Scaling by a rational and adding two factors.
Scale(w, t) == <<w[1] * t[1], w[1] * t[2], w[2] * t[3]>>
Plus(s, t) ==
    IF s[3] = t[3] THEN <<s[1] + t[1], s[2] + t[2], s[3]>>
    ELSE <<s[1] * t[3] + t[1] * s[3], s[2] * t[3] + t[2] * s[3], s[3] * t[3]>>

\* Variable elimination on the factors of Fraud and its parents: the Fraud
\* CPD is reduced to the observed state of each parent in the evidence
\* (whose own prior, reduced to a constant, drops out), multiplied by the
\* prior of every other parent and summed over that parent's states.
\* Marg is the factor for the columns whose first i-1 parents are fixed at
\* offset; MargSum adds the first j states of parent i.
RECURSIVE Marg(_, _, _, _)
RECURSIVE MargSum(_, _, _, _, _)
Marg(model, evidence, i, offset) ==
    LET cpd == model.cpds["Fraud"]
    IN  IF i > Len(cpd.evidence)
          THEN <<cpd.values[1][offset + 1][2], cpd.values[2][offset + 1][2], One>>
        ELSE LET var == cpd.evidence[i]
                 card == cpd.evidence_card[i]
             IN  IF var \in DOMAIN evidence
                   THEN Marg(model, evidence, i + 1,
                             offset * card + StateNo(cpd, var, evidence[var]) - 1)
                   ELSE MargSum(model, evidence, i, offset, card)

MargSum(model, evidence, i, offset, j) ==
    LET cpd == model.cpds["Fraud"]
        var == cpd.evidence[i]
        card == cpd.evidence_card[i]
        term == Scale(AsRational(model.cpds[var].values[j][1]),
                      Marg(model, evidence, i + 1, offset * card + j - 1))
    IN  IF j = 1 THEN term ELSE Plus(term, MargSum(model, evidence, i, offset, j - 1))

\* pgmpy VariableElimination(model).query(variables=["Fraud"], evidence):
\* a variable shared by variables and evidence, or an evidence variable
\* that is no node, raises ValueError; a state that is not among the
\* variable's state names raises KeyError; the result is normalised by the
\* sum of its values (<<n, d>> is n/d, 0/0 a NaN).
query(model, evidence) ==
    IF "Fraud" \in DOMAIN evidence THEN Raise("ValueError")
    ELSE IF \E v \in DOMAIN evidence : v \notin model.nodes THEN Raise("ValueError")
    ELSE IF \E v \in DOMAIN evidence :
              StateNo(model.cpds["Fraud"], v, evidence[v]) = 0 THEN Raise("KeyError")
    ELSE LET joint == Marg(model, evidence, 1, 0)
             z == joint[1] + joint[2]
         IN  Return(<< <<joint[1], z>>, <<joint[2], z>> >>)

\* score_case that drops the evidence the network cannot use (an unknown
\* variable, an undeclared state) instead of handing it to the query.
score_case_lenient(model, evidence) ==
    LET usable == {v \in DOMAIN evidence :
                      /\ v \in model.nodes
                      /\ v # "Fraud"
                      /\ StateNo(model.cpds["Fraud"], v, evidence[v]) # 0}
        fraud_distribution == query(model, [v \in usable |-> evidence[v]])
        value(state) == fraud_distribution.val[StateNo(model.cpds["Fraud"], "Fraud", state)]
    IN  [result |-> Return([s \in {"Fraud", "Legit"} |-> value(s)]),
         model |-> model]

\* score_case that reports the first value of the distribution under both
\* names.
score_case_one_value(model, evidence) ==
    LET fraud_distribution == query(model, evidence)
    IN  [result |-> IF Raised(fraud_distribution) THEN Raise(fraud_distribution.exc)
                    ELSE Return([s \in {"Fraud", "Legit"} |-> fraud_distribution.val[1]]),
         model |-> model]

\* score_case that reduces the CPD of every observed parent in place (a
\* point mass on the observed state) and leaves it reduced in self.model.
score_case_in_place(model, evidence) ==
    LET fraud_distribution == query(model, evidence)
        value(state) == fraud_distribution.val[StateNo(model.cpds["Fraud"], "Fraud", state)]
        reduced(v) ==
            [model.cpds[v] EXCEPT !.values =
                [j \in DOMAIN model.cpds[v].values |->
                    IF j = StateNo(model.cpds[v], v, evidence[v])
                      THEN <<Rat(1, 1)>> ELSE <<Rat(0, 1)>>]]
    IN  [result |-> IF Raised(fraud_distribution) THEN Raise(fraud_distribution.exc)
                    ELSE Return([s \in {"Fraud", "Legit"} |-> value(s)]),
         model |-> IF Raised(fraud_distribution) THEN model
                   ELSE [model EXCEPT !.cpds =
                            [v \in DOMAIN model.cpds |->
                                IF v \in DOMAIN evidence THEN reduced(v)
                                ELSE model.cpds[v]]]]

\* model_builder.py FraudBN.score_case, lines 140-153: the outcome of the
\* call and the network it leaves in self.model.
score_case(model, evidence) ==
    LET fraud_distribution == query(model, evidence)
        names == model.cpds["Fraud"].state_names["Fraud"]
        value(state) == fraud_distribution.val[StateNo(model.cpds["Fraud"], "Fraud", state)]
    IN  [result |-> IF Raised(fraud_distribution) THEN Raise(fraud_distribution.exc)
                    ELSE Return([s \in {"Fraud", "Legit"} |-> value(s)]),
         model |-> model]

\* ------------------------------------------------------------ model store
RECURSIVE SeqOf(_)
SeqOf(S) ==
    IF S = {} THEN <<>>
    ELSE LET x == CHOOSE y \in S : TRUE IN <<x>> \o SeqOf(S \ {x})

\* A dump that stores the nodes and the CPDs but not the edges.
pickle_dump_without_edges(model) ==
    [nodes |-> SeqOf(model.nodes), edges |-> <<>>,
     cpds |-> LET vars == SeqOf(DOMAIN model.cpds)
              IN  [i \in DOMAIN vars |-> model.cpds[vars[i]]]]

\* pickle.dump(self.model, file_handle) (model_builder.py line 167): the
\* graph's node list, edge list and CPD list.
pickle_dump(model) ==
    [nodes |-> SeqOf(model.nodes), edges |-> SeqOf(model.edges),
     cpds |-> LET vars == SeqOf(DOMAIN model.cpds)
              IN  [i \in DOMAIN vars |-> model.cpds[vars[i]]]]

\* pickle.load(file_handle) (model_builder.py line 186): a file that holds
\* no complete pickle ends the read with EOFError.
pickle_load(file) ==
    IF file.size = 0 THEN Raise("EOFError")
    ELSE LET blob == file.data
             of(v) == CHOOSE i \in DOMAIN blob.cpds : blob.cpds[i].variable = v
         IN  Return([nodes |-> Range(blob.nodes), edges |-> Range(blob.edges),
                     cpds |-> [v \in {blob.cpds[i].variable : i \in DOMAIN blob.cpds} |->
                                  blob.cpds[of(v)]]])

\* model_builder.py FraudBN.load, lines 180-191: open, unpickle, and put
\* the loaded network in a fresh FraudBN.
load(file) ==
    IF ~file.exists THEN Raise("FileNotFoundError") ELSE pickle_load(file)

\* ------------------------------------------------------------ state
VARIABLES
    raw_probs_file,  \* settings.raw_probs_file: raw_probs.json
    priors_file,     \* PRIORS_FILE: data/priors.json
    weights_file,    \* WEIGHTS_FILE: data/weights.json
    model_file,      \* prod_model/prod_model.pkl
    pc,              \* where each process is in its run
    settings,        \* each process's Settings() (build_weights, base_fraud_rate)
    module,          \* each process's weights.bias and weights.WEIGHTS
    fraud_cpd,       \* each process's outcome of build_fraud_cpd (assemble, line 116)
    bn,              \* each process's FraudService.bn.model
    case,            \* the evidence of the process's last score call
    outcome,         \* the outcome of the process's last score call
    err,             \* the exception that ended the process's run, and where
    runs,            \* runs started so far
    saved_bn         \* history: the network of the last completed save

vars == <<raw_probs_file, priors_file, weights_file, model_file, pc, settings,
          module, fraud_cpd, bn, case, outcome, err, runs, saved_bn>>

Procs == 1..NumCallers

NoModule == [bias |-> NaN, weights |-> [k \in {} |-> NaN]]
NoBN == [nodes |-> {}, edges |-> {}, cpds |-> [v \in {} |-> 0]]
NoCpd == Raise("unset")
NoCase == [v \in {} |-> ""]
NoOutcome == Raise("unset")
NoErr == [at |-> "nowhere", exc |-> "none"]
NoSettings == [build_weights |-> FALSE, base_fraud_rate |-> <<0, 1>>]

\* The sources a run is given: raw_probs.json and priors.json vary one at
\* a time around the consistent pair, plus the pairs in which both a
\* weight and the declared states are off.
Sources ==
    {<<r, File(PriorsBase)>> : r \in RawFiles}
        \cup {<<File(RawBase), f>> : f \in PriorsFiles}
        \cup {<<File(RawWithout(5)), f>> : f \in PriorsFiles}

\* The state before the first run, for a choice of source files.
InitWith(sources) ==
    /\ \E src \in sources : raw_probs_file = src[1] /\ priors_file = src[2]
    /\ weights_file \in {NoFile, EmptyFile}
    /\ model_file = NoFile
    /\ pc = [p \in Procs |-> "idle"]
    /\ settings = [p \in Procs |-> NoSettings]
    /\ module = [p \in Procs |-> NoModule]
    /\ fraud_cpd = [p \in Procs |-> NoCpd]
    /\ bn = [p \in Procs |-> NoBN]
    /\ case = [p \in Procs |-> NoCase]
    /\ outcome = [p \in Procs |-> NoOutcome]
    /\ err = [p \in Procs |-> NoErr]
    /\ runs = 0
    /\ saved_bn = NoBN

Init == InitWith(Sources)

\* ------------------------------------------------------------ actions
\* A process starts with its environment (BUILD_WEIGHTS, BASE_FRAUD_RATE)
\* read into settings (settings.py line 67).
Begin(p, flag, rate) ==
    /\ pc[p] = "idle"
    /\ runs < MaxRuns
    /\ pc' = [pc EXCEPT ![p] = "import"]
    /\ settings' = [settings EXCEPT ![p] = [build_weights |-> flag, base_fraud_rate |-> rate]]
    /\ runs' = runs + 1
    /\ UNCHANGED <<raw_probs_file, priors_file, weights_file, model_file, module, bn,
                   case, outcome, err, saved_bn, fraud_cpd>>

\* One run after the other: a new process starts when none is running
\* (which process it is called makes no difference: the first).
StartRun(p) ==
    /\ \A q \in Procs : pc[q] = "idle" /\ p <= q
    /\ \E flag \in BOOLEAN, rate \in BaseRates : Begin(p, flag, rate)

\* Callers that run at the same time.
StartCaller(p) == \E flag \in BOOLEAN, rate \in BaseRates : Begin(p, flag, rate)

Crash(p, where, exc) ==
    /\ pc' = [pc EXCEPT ![p] = "crashed"]
    /\ err' = [err EXCEPT ![p] = [at |-> where, exc |-> exc]]

\* load_weights without the test of settings.build_weights (line 99): an
\* existing, non-empty weights.json is always trusted.
load_weights_ignoring_flag(p) ==
    /\ pc[p] = "import"
    /\ IF ~weights_file.exists \/ weights_file.size = 0
         THEN LET trained == derive_weights(raw_probs_file, settings[p].base_fraud_rate)
              IN  IF Raised(trained)
                    THEN /\ Crash(p, "load_weights", trained.exc)
                         /\ UNCHANGED <<weights_file, module>>
                    ELSE /\ weights_file' = EmptyFile
                         /\ module' = [module EXCEPT ![p] = trained.val]
                         /\ pc' = [pc EXCEPT ![p] = "train_dump"]
                         /\ UNCHANGED err
         ELSE /\ module' = [module EXCEPT ![p] =
                               [bias |-> weights_file.data.bias,
                                weights |-> weights_file.data.weights]]
              /\ pc' = [pc EXCEPT ![p] = "init"]
              /\ UNCHANGED <<weights_file, err>>
    /\ UNCHANGED <<raw_probs_file, priors_file, model_file, settings, bn, case,
                   outcome, runs, saved_bn, fraud_cpd>>

\* weights.py line 118 -> load_weights (lines 99-112).  Rebuilding runs
\* train_and_save_weights up to open(WEIGHTS_FILE, "w") (lines 55-76),
\* which truncates the file; reuse reads the file (lines 108-112).
load_weights(p) ==
    /\ pc[p] = "import"
    /\ IF settings[p].build_weights \/ ~weights_file.exists \/ weights_file.size = 0
         THEN LET trained == derive_weights(raw_probs_file, settings[p].base_fraud_rate)
              IN  IF Raised(trained)
                    THEN /\ Crash(p, "load_weights", trained.exc)
                         /\ UNCHANGED <<weights_file, module>>
                    ELSE /\ weights_file' = EmptyFile
                         /\ module' = [module EXCEPT ![p] = trained.val]
                         /\ pc' = [pc EXCEPT ![p] = "train_dump"]
                         /\ UNCHANGED err
         ELSE /\ module' = [module EXCEPT ![p] =
                               [bias |-> weights_file.data.bias,
                                weights |-> weights_file.data.weights]]
              /\ pc' = [pc EXCEPT ![p] = "init"]
              /\ UNCHANGED <<weights_file, err>>
    /\ UNCHANGED <<raw_probs_file, priors_file, model_file, settings, bn, case,
                   outcome, runs, saved_bn, fraud_cpd>>

\* train_and_save_weights lines 77-80: json.dump of the payload, close,
\* return (bias, weights).
train_dump(p) ==
    /\ pc[p] = "train_dump"
    /\ weights_file' = File([bias |-> module[p].bias, weights |-> module[p].weights])
    /\ pc' = [pc EXCEPT ![p] = "init"]
    /\ UNCHANGED <<raw_probs_file, priors_file, model_file, settings, module, bn,
                   case, outcome, err, runs, saved_bn, fraud_cpd>>

\* service.py FraudService.__init__ lines 45-49: no model file, so
\* self.bn = FraudBN().assemble().
init_build(p) ==
    /\ pc[p] = "init"
    /\ ~model_file.exists
    /\ LET built == assemble(module[p].bias, module[p].weights, priors_file)
       IN  IF Raised(built)
             THEN /\ Crash(p, "assemble", built.exc)
                  /\ UNCHANGED bn
             ELSE /\ bn' = [bn EXCEPT ![p] = built.val]
                  /\ pc' = [pc EXCEPT ![p] = "save"]
                  /\ UNCHANGED err
    /\ fraud_cpd' = [fraud_cpd EXCEPT ![p] =
                        build_fraud_cpd(module[p].bias, module[p].weights, priors_file)]
    /\ UNCHANGED <<raw_probs_file, priors_file, weights_file, model_file, settings,
                   module, case, outcome, runs, saved_bn>>

\* FraudBN.save lines 160-166: open(model_path, "wb") truncates the file.
save_open(p) ==
    /\ pc[p] = "save"
    /\ model_file' = EmptyFile
    /\ pc' = [pc EXCEPT ![p] = "save_dump"]
    /\ UNCHANGED <<raw_probs_file, priors_file, weights_file, settings, module, bn,
                   case, outcome, err, runs, saved_bn, fraud_cpd>>

\* FraudBN.save lines 167-170: pickle.dump and close.
save_dump(p) ==
    /\ pc[p] = "save_dump"
    /\ model_file' = File(pickle_dump(bn[p]))
    /\ saved_bn' = bn[p]
    /\ pc' = [pc EXCEPT ![p] = "ready"]
    /\ UNCHANGED <<raw_probs_file, priors_file, weights_file, settings, module, bn,
                   case, outcome, err, runs, fraud_cpd>>

\* FraudService.__init__ lines 45, 51-52: the model file exists.
init_found(p) ==
    /\ pc[p] = "init"
    /\ model_file.exists
    /\ pc' = [pc EXCEPT ![p] = "load"]
    /\ UNCHANGED <<raw_probs_file, priors_file, weights_file, model_file, settings,
                   module, bn, case, outcome, err, runs, saved_bn, fraud_cpd>>

\* FraudService.__init__ line 55: self.bn = FraudBN.load().
init_load(p) ==
    /\ pc[p] = "load"
    /\ LET loaded == load(model_file)
       IN  IF Raised(loaded)
             THEN /\ Crash(p, "load", loaded.exc)
                  /\ UNCHANGED bn
             ELSE /\ bn' = [bn EXCEPT ![p] = loaded.val]
                  /\ pc' = [pc EXCEPT ![p] = "loaded"]
                  /\ UNCHANGED err
    /\ UNCHANGED <<raw_probs_file, priors_file, weights_file, model_file, settings,
                   module, case, outcome, runs, saved_bn, fraud_cpd>>

\* A service that finished __init__ (having built and saved, or loaded).
Serving(p) == pc[p] \in {"ready", "loaded"}

\* service.py FraudService.score -> FraudBN.score_case (runner.py line 23).
score(p, evidence) ==
    /\ Serving(p)
    /\ LET scored == score_case(bn[p], evidence)
       IN  /\ bn' = [bn EXCEPT ![p] = scored.model]
           /\ outcome' = [outcome EXCEPT ![p] = scored.result]
    /\ case' = [case EXCEPT ![p] = evidence]
    /\ UNCHANGED <<raw_probs_file, priors_file, weights_file, model_file, pc, settings,
                   module, err, runs, saved_bn, fraud_cpd>>

\* The process ends (run_case returned, or the exception ended it).
exit(p) ==
    /\ Serving(p) \/ pc[p] = "crashed"
    /\ pc' = [pc EXCEPT ![p] = "idle"]
    /\ settings' = [settings EXCEPT ![p] = NoSettings]
    /\ module' = [module EXCEPT ![p] = NoModule]
    /\ fraud_cpd' = [fraud_cpd EXCEPT ![p] = NoCpd]
    /\ bn' = [bn EXCEPT ![p] = NoBN]
    /\ case' = [case EXCEPT ![p] = NoCase]
    /\ outcome' = [outcome EXCEPT ![p] = NoOutcome]
    /\ err' = [err EXCEPT ![p] = NoErr]
    /\ UNCHANGED <<raw_probs_file, priors_file, weights_file, model_file, runs, saved_bn>>

\* ------------------------------------------------------------ evidence
\* runner.py lines 51-57 and tests/risky_case.py lines 20-26.
default_case ==
    [v \in ParentSet |->
        CASE v = "Porting" -> "Recent" [] v = "DarkWeb" -> "High"
          [] v = "StateMatch" -> "No" [] v = "ProxyFlag" -> "Yes" [] OTHER -> "Distant"]
risky_case ==
    [v \in ParentSet |->
        CASE v = "Porting" -> "Old" [] v = "DarkWeb" -> "Medium"
          [] v = "StateMatch" -> "Yes" [] v = "ProxyFlag" -> "No" [] OTHER -> "Near"]

\* Evidence that names an unknown variable or an undeclared state.
InvalidCases ==
    { [v \in {"Device"} |-> "Rooted"],
      [v \in {"Porting"} |-> "Bogus"],
      [v \in {"Porting"} |-> "High"],
      [v \in ParentSet |-> IF v = "ProxyFlag" THEN "Maybe" ELSE default_case[v]],
      [v \in ParentSet \cup {"Device"} |-> IF v = "Device" THEN "Rooted" ELSE risky_case[v]] }

\* The cases the runs of Spec score.
Cases ==
    { default_case, risky_case, NoCase, [v \in {"DarkWeb"} |-> "High"] } \cup InvalidCases

\* Every partial evidence mapping over the parents with declared states
\* (of the schema of PriorsBase): pick[v] = 0 leaves v unobserved.
PartialEvidence ==
    LET picks == {c \in [ParentSet -> 0..4] :
                     \A v \in ParentSet : c[v] <= Len(PriorsBase[v].states)}
    IN  {[v \in {w \in ParentSet : c[w] > 0} |-> PriorsBase[v].states[c[v]]] : c \in picks}

\* ------------------------------------------------------------ specifications
Next ==
    \E p \in Procs :
        \/ StartRun(p)
        \/ load_weights(p)
        \/ train_dump(p)
        \/ init_build(p)
        \/ save_open(p)
        \/ save_dump(p)
        \/ init_found(p)
        \/ init_load(p)
        \/ \E e \in Cases : score(p, e)
        \/ exit(p)

Spec == Init /\ [][Next]_vars

\* A score call has returned or raised in the process.
Scored(p) == outcome[p].exc # "unset"

\* Sources the network is assembled from without failure.
ValidSources ==
    {<<File(RawBase), File(PriorsBase)>>,
     <<File(RawBase),
       File(PriorsWith("StateMatch", Prior(<<"Yes", "No">>, << <<1, 4>>, <<3, 4>> >>)))>>}

\* Queries: one run on valid sources builds the service, which is then
\* given any evidence (every partial mapping over the parents, and the
\* invalid cases) as its first query.
InitQuery == InitWith(ValidSources)

StartQuery(p) == runs = 0 /\ StartRun(p)

first_score(p) ==
    /\ ~Scored(p)
    /\ \E e \in PartialEvidence \cup InvalidCases : score(p, e)

NextQuery ==
    \E p \in Procs :
        \/ StartQuery(p)
        \/ load_weights(p)
        \/ train_dump(p)
        \/ init_build(p)
        \/ save_open(p)
        \/ save_dump(p)
        \/ first_score(p)
        \/ exit(p)

SpecQuery == InitQuery /\ [][NextQuery]_vars

\* Concurrent initialisation: the callers start with the same settings
\* while no model file exists, and their steps interleave.
InitRace == InitWith(ValidSources)

StartRace(p) ==
    /\ StartCaller(p)
    /\ \A q \in Procs : pc[q] # "idle" => settings'[p] = settings[q]

NextRace ==
    \E p \in Procs :
        \/ StartRace(p)
        \/ load_weights(p)
        \/ train_dump(p)
        \/ init_build(p)
        \/ save_open(p)
        \/ save_dump(p)
        \/ init_found(p)
        \/ init_load(p)

SpecRace == InitRace /\ [][NextRace]_vars

\* ------------------------------------------------------------ claims

\* The process has finished importing freq_app.model.weights.
Imported(p) == pc[p] \in {"init", "save", "save_dump", "load", "ready", "loaded"}

\* The decision of load_weights: rebuild, or reuse the persisted weights.
MustRebuild(p) ==
    settings[p].build_weights \/ ~weights_file.exists \/ weights_file.size = 0

\* C1: load_weights follows the build-or-reuse policy.  When
\* settings.build_weights is set, or weights.json does not exist, or it is
\* empty, the weights are derived by train_and_save_weights (which raises
\* and leaves the file alone, or returns the derived pair and writes it to
\* the file); in every other case the persisted bias and weights are
\* returned exactly as stored and the file is not rewritten.
C1_BuildOrReuse ==
    [][/\ (\A q \in Procs : pc[q] \notin {"import", "train_dump"}) =>
              weights_file' = weights_file
       /\ \A p \in Procs :
        /\ (pc[p] = "import" /\ pc'[p] # "import") =>
              IF MustRebuild(p)
                THEN LET trained == derive_weights(raw_probs_file,
                                                   settings[p].base_fraud_rate)
                     IN  IF Raised(trained)
                           THEN pc'[p] = "crashed" /\ weights_file' = weights_file
                           ELSE pc'[p] = "train_dump" /\ module'[p] = trained.val
                ELSE /\ pc'[p] = "init"
                     /\ module'[p].bias = weights_file.data.bias
                     /\ module'[p].weights = weights_file.data.weights
                     /\ weights_file' = weights_file
        /\ (pc[p] = "train_dump" /\ pc'[p] # "train_dump") =>
              /\ pc'[p] = "init"
              /\ module'[p] = module[p]
              /\ weights_file'.size > 0
              /\ weights_file'.data.bias = module[p].bias
              /\ weights_file'.data.weights = module[p].weights
      ]_vars

\* C1 witness: a run that was not told to rebuild has imported the weights
\* an earlier run persisted under another base rate, and the file still
\* holds them.
C1_Witness ==
    \E p \in Procs :
        /\ pc[p] = "init"
        /\ ~settings[p].build_weights
        /\ ~Raised(logit(settings[p].base_fraud_rate))
        /\ module[p].bias # logit(settings[p].base_fraud_rate).val
        /\ weights_file.size > 0
        /\ weights_file.data.bias = module[p].bias

\* A probability that is not strictly between 0 and 1.
OutOfDomain(probability) ==
    probability[2] = 0 \/ probability[1] <= 0 \/ probability[1] >= probability[2]

\* The base rate or a raw probability of the run of p is out of domain.
DerivesOutOfDomain(p) ==
    \/ OutOfDomain(settings[p].base_fraud_rate)
    \/ /\ raw_probs_file.exists
       /\ \E i \in DOMAIN raw_probs_file.data : OutOfDomain(raw_probs_file.data[i].p)

\* C2 (as claimed): weight derivation fails whenever the base rate or a
\* raw probability is <= 0 or >= 1: train_and_save_weights never gets as
\* far as writing weights.json (it has derived nothing to return), and the
\* persisted weights stay as they were.
C2_DomainErrorClaim ==
    \A p \in Procs : pc[p] = "train_dump" => ~DerivesOutOfDomain(p)

\* A state of a parent declared in priors.json has no "feature:state" key
\* in the weights of p.
MissingWeight(p) ==
    /\ priors_file.exists
    /\ \E i \in DOMAIN Parents :
          \E j \in DOMAIN priors_file.data[Parents[i]].states :
              Key(Parents[i], priors_file.data[Parents[i]].states[j])
                  \notin DOMAIN module[p].weights

\* C3: build_fraud_cpd fails with a LookupError (KeyError) whenever a
\* declared state of a parent has no weight: the run ends in assemble with
\* that exception, no CPD was returned and the service has no network.
C3_MissingWeightRaises ==
    \A p \in Procs :
        (Imported(p) \/ pc[p] = "crashed") /\ MissingWeight(p) =>
            /\ pc[p] \notin {"save", "save_dump", "ready"}
            /\ ~(fraud_cpd[p].exc = "none")
            /\ err[p].at = "assemble" =>
                  /\ err[p].exc = "KeyError"
                  /\ fraud_cpd[p].exc = "KeyError"
                  /\ bn[p] = NoBN

\* C3 witness: a run ended in assemble with KeyError for a missing weight.
C3_Witness ==
    \E p \in Procs :
        /\ pc[p] = "crashed"
        /\ err[p].at = "assemble"
        /\ err[p].exc = "KeyError"
        /\ MissingWeight(p)

\* The position (from 1) of the column of the Fraud CPT for the tuple that
\* takes state c[i] of parent i, the last parent varying fastest, when
\* parent i has n[i] states.
ColumnOf(c, n) ==
    ((((c[1] - 1) * n[2] + (c[2] - 1)) * n[3] + (c[3] - 1)) * n[4] + (c[4] - 1)) * n[5]
        + c[5]

\* C4 (as claimed): whenever build_fraud_cpd returns a CPT, it has one
\* column per element of the cartesian product of the parents' declared
\* state lists, in parent order with the last parent varying fastest; the
\* column of a tuple holds sigmoid(bias + the weights of exactly its
\* states) for Fraud and the complement for Legit; and the evidence
\* cardinalities the CPT declares are the lengths of the state lists.
C4_CptClaim ==
    \A p \in Procs :
        fraud_cpd[p].exc = "none" =>
            LET cpd == fraud_cpd[p].val
                states == [i \in DOMAIN Parents |-> priors_file.data[Parents[i]].states]
                n == [i \in DOMAIN Parents |-> Len(states[i])]
                combos == {c \in [DOMAIN Parents -> 1..4] :
                              \A i \in DOMAIN Parents : c[i] <= n[i]}
            IN  /\ Len(cpd.values[1]) = Prod(n)
                /\ \A c \in combos :
                      LET yes == sigmoid(tuple_logit(module[p].bias, module[p].weights,
                                                     [i \in DOMAIN Parents |-> states[i][c[i]]]))
                      IN  /\ cpd.values[1][ColumnOf(c, n)] = yes
                          /\ cpd.values[2][ColumnOf(c, n)] = Complement(yes)
                /\ \A i \in DOMAIN Parents : cpd.evidence_card[i] = n[i]

\* assemble fails on the sources of p: no priors.json, a missing weight, a
\* NaN weight or bias in use, a prior that fails construction, or a
\* network check_model rejects.
AssemblyFails(p) == Raised(assemble(module[p].bias, module[p].weights, priors_file))

\* C5: a construction-time failure aborts assembly entirely.  The model
\* store never holds anything but the complete dump of a network that
\* check_model accepted; a process is about to save, or serves, only a
\* network check_model accepts; a run whose assembly fails ends there, with
\* nothing written to the model store and no network to score with.
C5_SaveOnlyValidated ==
    /\ model_file.size > 0 =>
          /\ model_file.data = pickle_dump(saved_bn)
          /\ ModelConsistent(saved_bn)
    /\ \A p \in Procs :
          /\ pc[p] \in {"save", "save_dump", "ready"} =>
                /\ ModelConsistent(bn[p])
                /\ ~AssemblyFails(p)
                /\ bn[p] = assemble(module[p].bias, module[p].weights, priors_file).val
          /\ pc[p] = "crashed" =>
                /\ bn[p] = NoBN
                /\ ~Serving(p)
                /\ err[p].at = "assemble" => AssemblyFails(p) /\ ~model_file.exists
          /\ (pc[p] = "init" /\ AssemblyFails(p)) => bn[p] = NoBN

\* C5 witness: check_model rejected the network (a prior that does not sum
\* to 1): the run ended in assemble with ValueError although the Fraud CPD
\* was built, and there is no model file.
C5_Witness ==
    \E p \in Procs :
        /\ pc[p] = "crashed"
        /\ err[p] = [at |-> "assemble", exc |-> "ValueError"]
        /\ fraud_cpd[p].exc = "none"
        /\ ~model_file.exists

\* The evidence names a variable that is not in the network, or a value
\* that is not among the states the variable's CPD declares.
InvalidEvidence(model, evidence) ==
    \E v \in DOMAIN evidence :
        \/ v \notin model.nodes
        \/ evidence[v] \notin Range(model.cpds[v].state_names[v])

\* C6: score_case fails whenever the evidence names a variable that is
\* not in the network or a value that is not a declared state of its
\* variable: the call raises (ValueError or KeyError) and returns no score.
C6_InvalidEvidenceRaises ==
    \A p \in Procs :
        (Serving(p) /\ Scored(p) /\ InvalidEvidence(bn[p], case[p])) =>
            /\ outcome[p].exc \in {"ValueError", "KeyError"}
            /\ outcome[p].val = <<>>

\* C6 witness: a serving process scored evidence with an undeclared state
\* of a known variable and the call raised KeyError.
C6_Witness ==
    \E p \in Procs :
        /\ Serving(p)
        /\ DOMAIN case[p] \subseteq bn[p].nodes
        /\ InvalidEvidence(bn[p], case[p])
        /\ outcome[p].exc = "KeyError"

\* C9: load(save(network)) reproduces the network.  A service that loads
\* the persisted model holds the network that was assembled and saved
\* (nodes, edges and CPDs), and its scores are those of that network;
\* assembly runs only when no model file exists, and a complete model file
\* is never rewritten.
C9_LoadReproducesSaved ==
    [][/\ \A p \in Procs :
            /\ (pc[p] = "load" /\ pc'[p] = "loaded") =>
                  /\ bn'[p] = saved_bn
                  /\ bn'[p].nodes = saved_bn.nodes
                  /\ bn'[p].edges = saved_bn.edges
                  /\ bn'[p].cpds = saved_bn.cpds
            /\ (pc'[p] = "loaded" /\ Scored(p)') =>
                  outcome'[p] = score_case(saved_bn, case'[p]).result
            /\ (pc[p] = "init" /\ pc'[p] \in {"save", "crashed"}) => ~model_file.exists
            /\ (pc[p] = "init" /\ model_file.exists) => pc'[p] \in {"init", "load"}
       /\ model_file.size > 0 => model_file' = model_file
      ]_vars

\* C9 witness: a later run loaded the model an earlier run saved and
\* scored a case with it.
C9_Witness ==
    \E p \in Procs :
        /\ pc[p] = "loaded"
        /\ bn[p] = saved_bn
        /\ Scored(p)
        /\ ~Raised(outcome[p])
        /\ DOMAIN case[p] = ParentSet

\* C10: score_case leaves the network unchanged.  Across every step of a
\* serving process (a successful query, a query failing on invalid
\* evidence) the network is what it was, which is the network that was
\* assembled and saved, so the outcome of a query is the outcome on that
\* network whatever was scored before.
C10_ScoreLeavesNetwork ==
    [][\A p \in Procs :
          (Serving(p) /\ Serving(p)') =>
              /\ bn'[p] = bn[p]
              /\ bn'[p] = saved_bn
              /\ Scored(p)' => outcome'[p] = score_case(saved_bn, case'[p]).result
      ]_vars

\* C10 witness: a serving process, its network still the saved one, got a
\* score for a case that observes every parent.
C10_Witness ==
    \E p \in Procs :
        /\ pc[p] = "ready"
        /\ Scored(p)
        /\ ~Raised(outcome[p])
        /\ case[p] = risky_case
        /\ bn[p] = saved_bn

\* C7: for every partial evidence mapping over the five parents with
\* declared states, the empty mapping included, score_case returns a
\* mapping with exactly the keys "Fraud" and "Legit" whose two
\* probabilities (numerator over a common positive normaliser) are each
\* within [0, 1] and sum to 1.
C7_ScoreIsDistribution ==
    \A p \in Procs :
        (/\ Serving(p) /\ Scored(p)
         /\ DOMAIN case[p] \subseteq ParentSet
         /\ ~InvalidEvidence(bn[p], case[p])) =>
            /\ outcome[p].exc = "none"
            /\ DOMAIN outcome[p].val = {"Fraud", "Legit"}
            /\ LET fraud == outcome[p].val["Fraud"]
                   legit == outcome[p].val["Legit"]
               IN  /\ fraud[2] > 0 /\ legit[2] = fraud[2]
                   /\ 0 <= fraud[1] /\ fraud[1] <= fraud[2]
                   /\ 0 <= legit[1] /\ legit[1] <= legit[2]
                   /\ fraud[1] + legit[1] = fraud[2]

\* C7 witness: the empty evidence mapping was scored (the prior-only
\* marginal) and both outcomes have a positive probability.
C7_Witness ==
    \E p \in Procs :
        /\ Serving(p)
        /\ Scored(p)
        /\ case[p] = NoCase
        /\ ~Raised(outcome[p])
        /\ outcome[p].val["Fraud"][1] > 0
        /\ outcome[p].val["Legit"][1] > 0

\* C8 (as claimed): when callers initialise the service concurrently,
\* no caller fails in load because another caller is in the middle of
\* saving, every caller that finished holds the network a sequential build
\* produces, and once all have finished the model file holds that network.
C8_RaceClaim ==
    /\ \A p \in Procs : ~(pc[p] = "crashed" /\ err[p].at = "load")
    /\ \A p \in Procs :
          Serving(p) =>
              bn[p] = assemble(module[p].bias, module[p].weights, priors_file).val
    /\ (\A p \in Procs : Serving(p)) =>
          \A p \in Procs : model_file = File(pickle_dump(bn[p]))

\* C11 (as claimed): whenever FraudService has finished initialising, the
\* Fraud CPT of the network it serves is the one build_fraud_cpd produces
\* from the bias and weights load_weights returned in that process, also
\* in a run that re-derived the weights while a model file of an earlier
\* run exists.
C11_ServedCptFromWeights ==
    \A p \in Procs :
        Serving(p) =>
            LET built == build_fraud_cpd(module[p].bias, module[p].weights, priors_file)
            IN  /\ built.exc = "none"
                /\ bn[p].cpds["Fraud"] = built.val

====
